---- MODULE Spec2Model ----
(***************************************************************************)
(* A model of the window runtime of src/src/window.rs (GooeyWindow): the   *)
(* input handlers keyboard_input, mouse_wheel, ime, cursor_moved,          *)
(* cursor_left and mouse_input, the router recursively_handle_event and    *)
(* keyboard_activate_widget.  Widget handlers, the tree and the event      *)
(* context live outside src/; their effects are inputs of the actions or   *)
(* are modelled from the specification where marked.                       *)
(*                                                                         *)
(* Conventions: a WidgetId is a number of 1..NumWidgets and 0 stands for   *)
(* an empty Option<WidgetId>; an Option of a point or a rectangle is the    *)
(* empty set or a one-element set; `calls` is the sequence of calls the    *)
(* last handler made on event contexts, `event` the input it was given and *)
(* `result` what recursively_handle_event returned to it (0 for none).     *)
(***************************************************************************)
EXTENDS Integers, Sequences, FiniteSets

VARIABLES
    parent,             \* Node::parent of every widget (0 for the root)
    layout,             \* Node::last_layout of every widget (an Option)
    render_order,       \* Tree: the render order of the last frame
    focused,            \* Tree::focused_widget
    hovered,            \* Tree::hovered_widget
    default_widget,     \* Tree::default_widget
    escape_widget,      \* Tree::escape_widget
    should_close,       \* GooeyWindow::should_close
    initial_frame,      \* GooeyWindow::initial_frame
    keyboard_activated, \* GooeyWindow::keyboard_activated
    mouse_location,     \* MouseState::location
    mouse_widget,       \* MouseState::widget
    devices,            \* MouseState::devices
    event,              \* the input of the last handler
    calls,              \* the calls the last handler made
    result,             \* the consumer recursively_handle_event returned
    activations,        \* per widget, the activate calls the window made on
                        \* it minus the deactivate calls
    min_inner_size,     \* GooeyWindow::min_inner_size
    max_inner_size,     \* GooeyWindow::max_inner_size
    removed             \* Tree: the ids that no longer resolve to a widget

vars == << parent, layout, render_order, focused, hovered, default_widget,
           escape_widget, should_close, initial_frame, keyboard_activated,
           mouse_location, mouse_widget, devices, event, calls, result,
           activations, min_inner_size, max_inner_size, removed >>

-----------------------------------------------------------------------------
(* Bounds and input sets *)

NumWidgets == 3
MaxCoord == 2
MaxDim == 3
MaxChain == 2

Widgets == 1 .. NumWidgets
Root == 1
NoWidget == 0
OptWidget == {NoWidget} \cup Widgets

\* winit's DeviceId is opaque and MouseButton an enum
DeviceIds == {"mouse", "touch"}
MouseButtons == {"Left", "Right"}
NoDevice == "none"
NoButton == "none"

\* Cursor positions the host reports: the diagonal of the grid
Positions == { <<c, c>> : c \in 0 .. MaxCoord }

\* The tree in which widget w is a child of widget w \div 2
HeapTree == [w \in Widgets |-> w \div 2]

\* The widget trees: every widget but the root has a parent mounted before it
Trees == { p \in [Widgets -> OptWidget] :
             /\ p[Root] = NoWidget
             /\ \A w \in Widgets \ {Root} : p[w] \in Widgets /\ p[w] < w }

-----------------------------------------------------------------------------
(* Options, points and rectangles *)

Some(x) == {x}
Unwrap(o) == CHOOSE x \in o : TRUE

PointSub(p, q) == << p[1] - q[1], p[2] - q[2] >>

RectContains(r, p) ==
    /\ r.origin[1] <= p[1] /\ p[1] < r.origin[1] + r.size[1]
    /\ r.origin[2] <= p[2] /\ p[2] < r.origin[2] + r.size[2]

-----------------------------------------------------------------------------
(* HashMap operations used on MouseState::devices *)

EmptyMap == [k \in {} |-> NoWidget]

MapInsert(m, k, v) == [x \in (DOMAIN m) \cup {k} |-> IF x = k THEN v ELSE m[x]]

MapRemove(m, k) == [x \in (DOMAIN m) \ {k} |-> m[x]]

\* Every map a HashMap<DeviceId, HashMap<MouseButton, ManagedWidget>> can be
ButtonMaps == UNION { [bs -> Widgets] : bs \in SUBSET MouseButtons }
DeviceMaps == UNION { [ds -> ButtonMaps] : ds \in SUBSET DeviceIds }

\* The orders in which iterating a HashMap can visit the keys of `keys`
Orderings(keys) ==
    { s \in [1 .. Cardinality(keys) -> keys] :
        \A i, j \in 1 .. Cardinality(keys) : i # j => s[i] # s[j] }

-----------------------------------------------------------------------------
(* The log of a handler: its input and the calls it made *)

\* The inputs of a frame, recorded for prepare only
NoFrame ==
    [resizable |-> FALSE, chain |-> << >>, window_size |-> << 0, 0 >>,
     actual_size |-> << 0, 0 >>, initial |-> FALSE, min_before |-> {},
     max_before |-> {}]

NoMods == [primary |-> FALSE, shift |-> FALSE, shortcut |-> FALSE]

\* `answers` are the widgets whose handler answers the event when asked:
\* HANDLED for an event that bubbles, true for a hit test; `focus` is the
\* focused widget the handler starts with and `order` the LayoutOrder the
\* style of its target resolves to (read by the Tab arm only)
Event(kind, dev, btn, pressed, key, mods, pos, answers) ==
    [kind |-> kind, dev |-> dev, btn |-> btn, pressed |-> pressed,
     key |-> key, mods |-> mods, pos |-> pos, answers |-> answers,
     focus |-> focused, order |-> "ltr", frame |-> NoFrame,
     allow |-> FALSE, replaced |-> {}]

NoEvent == Event("none", NoDevice, NoButton, FALSE, "", NoMods, {}, {})

\* A call of `op` on the event context of widget w
Call(op, w, dev, btn, off) ==
    [op |-> op, w |-> w, dev |-> dev, btn |-> btn, off |-> off]

\* The calls of `log` whose operation is one of `ops`
CallsOf(log, ops) == SelectSeq(log, LAMBDA c : c.op \in ops)

-----------------------------------------------------------------------------
(* Tree accessors *)

\* ManagedWidget::last_layout
LastLayout(w) == layout[w]

\* The offset of `location` from the origin of w's last layout
RelativeTo(location, w) == PointSub(location, Unwrap(LastLayout(w)).origin)

RECURSIVE Ancestors(_)
\* w, parent(w), ..., root
Ancestors(w) ==
    IF parent[w] = NoWidget THEN << w >> ELSE << w >> \o Ancestors(parent[w])

-----------------------------------------------------------------------------
(* recursively_handle_event: `handles[w]` is what each_widget returns on w  *)
(* (TRUE for HANDLED).  Returns the consumer and the widgets it invoked     *)
(* each_widget on, in order.                                                 *)

\* recursively_handle_event retrying on the parent once, without recursing
RecursivelyHandleEvent_OneLevel(target, handles) ==
    IF handles[target]
    THEN [consumer |-> target, visited |-> << target >>]
    ELSE IF parent[target] # NoWidget
         THEN [consumer |-> IF handles[parent[target]]
                            THEN parent[target] ELSE NoWidget,
               visited |-> << target, parent[target] >>]
         ELSE [consumer |-> NoWidget, visited |-> << target >>]

\* recursively_handle_event asking every ancestor, whoever handled it
RecursivelyHandleEvent_AskAll(target, handles) ==
    LET path == Ancestors(target)
        handlers == { i \in 1 .. Len(path) : handles[path[i]] }
    IN  [consumer |-> IF handlers = {} THEN NoWidget
                      ELSE path[CHOOSE i \in handlers :
                                  \A j \in handlers : i <= j],
         visited |-> path]

RECURSIVE RecursivelyHandleEvent(_, _)
RecursivelyHandleEvent(target, handles) ==
    IF handles[target]
    THEN [consumer |-> target, visited |-> << target >>]
    ELSE IF parent[target] # NoWidget
         THEN LET up == RecursivelyHandleEvent(parent[target], handles)
              IN  [consumer |-> up.consumer,
                   visited |-> << target >> \o up.visited]
         ELSE [consumer |-> NoWidget, visited |-> << target >>]

-----------------------------------------------------------------------------
(* The frame: the part of prepare that the input handlers depend on *)

\* The rectangle the layout pass gives widget w in configuration k: in
\* configuration 0 the root fills the window and the others are 2x2 squares
\* along the diagonal, each overlapping the next; in configuration 1 the
\* root is clipped to less than the window and the others are unit squares
\* at the origin.
LayoutRect(w, k) ==
    IF w = Root
    THEN [origin |-> << 0, 0 >>,
          size |-> IF k = 0 THEN << MaxCoord + 1, MaxCoord + 1 >>
                            ELSE << MaxCoord, MaxCoord >>]
    ELSE IF k = 0
         THEN [origin |-> << w - 2, w - 2 >>, size |-> << 2, 2 >>]
         ELSE [origin |-> << 0, 0 >>, size |-> << 1, 1 >>]

LayoutConfigs == {0, 1}

RECURSIVE Depth(_)
Depth(w) == IF parent[w] = NoWidget THEN 0 ELSE 1 + Depth(parent[w])

\* The order in which the frame of configuration k visits the widgets: a
\* parent is rendered before its children; configuration 0 renders them by
\* ascending id, configuration 1 level by level, the highest id of a level
\* first
RenderOrder(k) ==
    LET Before(v, w) == IF k = 0 THEN v < w
                        ELSE \/ Depth(v) < Depth(w)
                             \/ Depth(v) = Depth(w) /\ v > w
        Rank(w) == 1 + Cardinality({ v \in Widgets : Before(v, w) })
    IN  [i \in 1 .. NumWidgets |-> CHOOSE w \in Widgets : Rank(w) = i]

\* Px::MAX, what a Resize without a maximum reports
PxMax == 2147483647

\* Size::min and Size::max: per axis
SizeMin(a, b) ==
    << IF a[1] <= b[1] THEN a[1] ELSE b[1],
       IF a[2] <= b[2] THEN a[2] ELSE b[2] >>

SizeMax(a, b) ==
    << IF a[1] >= b[1] THEN a[1] ELSE b[1],
       IF a[2] >= b[2] THEN a[2] ELSE b[2] >>

\* A widget of the wrap chain of the root: a Resize with the minimum() and
\* maximum() of its width and height (Options, in pixels at the current
\* scale), an Expand, or any other wrapper
Node(kind, min_width, max_width, min_height, max_height) ==
    [kind |-> kind, min_width |-> min_width, max_width |-> max_width,
     min_height |-> min_height, max_height |-> max_height]

\* minimum().map_or(Px(0), ..) and maximum().map_or(Px::MAX, ..)
MinPx(limit) == IF limit = {} THEN 0 ELSE Unwrap(limit)

MaxPx(limit) == IF limit = {} THEN PxMax ELSE Unwrap(limit)

\* new_min_size and new_max_size of a Resize
NewMinSize(node) ==
    LET min_width == MinPx(node.min_width)
        min_height == MinPx(node.min_height)
    IN  IF min_width > 0 \/ min_height > 0
        THEN Some(<< min_width, min_height >>) ELSE {}

NewMaxSize(node) ==
    LET max_width == MaxPx(node.max_width)
        max_height == MaxPx(node.max_height)
    IN  IF max_width > 0 \/ max_height > 0
        THEN Some(<< max_width, max_height >>) ELSE {}

\* What the body of the loop of constrain_window_resizing does at one
\* widget of the chain, with `min` and `max` cached so far
ConstrainStep(node, resizable, min, max) ==
    IF node.kind = "Resize"
    THEN [min |-> NewMinSize(node),
          max |-> NewMaxSize(node),
          calls |->
            (IF NewMinSize(node) # min
             THEN << Call("set_min_inner_size", NoWidget, NoDevice, NoButton,
                          NewMinSize(node)) >>
             ELSE << >>)
            \o (IF NewMaxSize(node) # max /\ resizable
                THEN << Call("set_max_inner_size", NoWidget, NoDevice,
                             NoButton, NewMaxSize(node)) >>
                ELSE << >>),
          is_expanded |-> FALSE]
    ELSE [min |-> min, max |-> max, calls |-> << >>,
          is_expanded |-> node.kind = "Expand"]

RECURSIVE ConstrainWindowResizing(_, _, _, _)
\* constrain_window_resizing: the loop over the wrap chain from the root
ConstrainWindowResizing(chain, resizable, min, max) ==
    IF chain = << >>
    THEN [min |-> min, max |-> max, calls |-> << >>, is_expanded |-> FALSE]
    ELSE LET step == ConstrainStep(Head(chain), resizable, min, max)
             rest == ConstrainWindowResizing(Tail(chain), resizable,
                                             step.min, step.max)
         IN  [min |-> rest.min, max |-> rest.max,
              calls |-> step.calls \o rest.calls,
              is_expanded |-> step.is_expanded \/ rest.is_expanded]

\* The constraints the root is laid out with
LayoutCalls(is_expanded, window_size) ==
    << Call("layout", Root, NoDevice,
            IF is_expanded THEN "Known" ELSE "ClippedAfter",
            Some(window_size)) >>

\* render_size without the clamp to the window
RenderSize_Unclamped(actual_size, window_size) == actual_size

\* render_size = actual_size.min(window_size)
RenderSize(actual_size, window_size) == SizeMin(actual_size, window_size)

\* new_size left at the size laid out
NewSize_Unclamped(actual_size, min, max) == actual_size

\* new_size: the size laid out, raised to the cached minimum and then
\* lowered to the cached maximum
NewSize(actual_size, min, max) ==
    LET raised == IF min # {} THEN SizeMax(actual_size, Unwrap(min))
                  ELSE actual_size
    IN  IF max # {} THEN SizeMin(raised, Unwrap(max)) ELSE raised

\* The resize asked for whether the window is resizable or not
ResizeCalls_WhenResizable(actual_size, window_size, resizable, min, max) ==
    IF actual_size # window_size
    THEN << Call("request_inner_size", NoWidget, NoDevice, NoButton,
                 Some(NewSize(actual_size, min, max))) >>
    ELSE << >>

\* The resize a window that is not resizable is asked for
ResizeCalls(actual_size, window_size, resizable, min, max) ==
    IF actual_size # window_size /\ ~resizable
    THEN << Call("request_inner_size", NoWidget, NoDevice, NoButton,
                 Some(NewSize(actual_size, min, max))) >>
    ELSE << >>

\* Mounting the root and establishing the focus in every frame
MountCalls_EveryFrame(first) ==
    << Call("mounted", Root, NoDevice, NoButton, {}),
       Call("focus", Root, NoDevice, NoButton, {}),
       Call("apply_pending_state", Root, NoDevice, NoButton, {}) >>

\* The first frame mounts the root and establishes the focus
MountCalls(first) ==
    IF first
    THEN << Call("mounted", Root, NoDevice, NoButton, {}),
            Call("focus", Root, NoDevice, NoButton, {}),
            Call("apply_pending_state", Root, NoDevice, NoButton, {}) >>
    ELSE << >>

\* The redraw, clipped to the rectangle of render_size when it is smaller
\* than the window on an axis
RedrawCalls(render_size, window_size) ==
    IF render_size[1] < window_size[1] \/ render_size[2] < window_size[2]
    THEN << Call("redraw", Root, NoDevice, NoButton, Some(render_size)) >>
    ELSE << Call("redraw", Root, NoDevice, NoButton, {}) >>

\* prepare: reset the render order, constrain the window, lay the tree out
\* (every widget is visited and gets its rectangle; the layout answers
\* actual_size), ask for a resize, set the root's layout to render_size,
\* on the first frame mount the root and establish the initial focus, and
\* redraw.  The widgets mounted in the first frame register the default
\* and the escape widget.
PrepareFrame(k, initial_focus, default, escape, resizable, chain, window_size, actual_size) ==
    LET constrained == ConstrainWindowResizing(chain, resizable,
                                               min_inner_size, max_inner_size)
        render_size == RenderSize(actual_size, window_size)
    IN  /\ min_inner_size' = constrained.min
        /\ max_inner_size' = constrained.max
        /\ layout' = [w \in Widgets |->
                        IF w = Root
                        THEN Some([origin |-> << 0, 0 >>, size |-> render_size])
                        ELSE Some(LayoutRect(w, k))]
        /\ render_order' = RenderOrder(k)
        /\ initial_frame' = FALSE
        /\ IF initial_frame
           THEN /\ focused' = initial_focus
                /\ default_widget' = default
                /\ escape_widget' = escape
           ELSE UNCHANGED << focused, default_widget, escape_widget >>
        /\ calls' = constrained.calls
                    \o LayoutCalls(constrained.is_expanded, window_size)
                    \o ResizeCalls(actual_size, window_size, resizable,
                                   constrained.min, constrained.max)
                    \o << Call("set_layout", Root, NoDevice, NoButton,
                               Some(render_size)) >>
                    \o MountCalls(initial_frame)
                    \o RedrawCalls(render_size, window_size)
        /\ event' = [Event("prepare", NoDevice, NoButton, FALSE, "", NoMods,
                           {}, {})
                     EXCEPT !.frame =
                        [resizable |-> resizable, chain |-> chain,
                         window_size |-> window_size,
                         actual_size |-> actual_size,
                         initial |-> initial_frame,
                         min_before |-> min_inner_size,
                         max_before |-> max_inner_size]]
        /\ result' = NoWidget
        /\ UNCHANGED << parent, hovered, should_close, keyboard_activated,
                        mouse_location, mouse_widget, devices, activations,
                        removed >>

\* The window of the grid the cursor moves over
GridSize == << MaxCoord + 1, MaxCoord + 1 >>

\* A frame of a resizable window of the size of the grid whose root wraps
\* nothing that constrains the window; the layout answers the size of the
\* root's rectangle in configuration k
Prepare(k, initial_focus, default, escape) ==
    PrepareFrame(k, initial_focus, default, escape, TRUE,
                 << Node("Other", {}, {}, {}, {}) >>, GridSize,
                 LayoutRect(Root, k).size)

-----------------------------------------------------------------------------
(* cursor_moved and cursor_left *)

\* Tree::widgets_at_point: the rendered widgets whose last layout contains
\* the point, the most recently rendered first
WidgetsAtPoint(point) ==
    LET n == Len(render_order)
        topmost_first == [i \in 1 .. n |-> render_order[n + 1 - i]]
    IN  SelectSeq(topmost_first,
                  LAMBDA w : /\ LastLayout(w) # {}
                             /\ RectContains(Unwrap(LastLayout(w)), point))

\* The hover loop without its break: the last passing candidate wins
FirstHit_NoBreak(candidates, hits) ==
    LET passing == { i \in 1 .. Len(candidates) : hits[candidates[i]] }
    IN  IF passing = {} THEN 0
        ELSE CHOOSE i \in passing : \A j \in passing : j <= i

\* The position in `candidates` of the first widget whose hit test passes,
\* 0 when none does: the loop of the hover branch breaks there
FirstHit(candidates, hits) ==
    LET passing == { i \in 1 .. Len(candidates) : hits[candidates[i]] }
    IN  IF passing = {} THEN 0
        ELSE CHOOSE i \in passing : \A j \in passing : i <= j

\* DragCalls passing the location of the cursor instead of the offset
DragCalls_Absolute(location, device_id, visit) ==
    [i \in 1 .. Len(visit) |->
        Call("mouse_drag", devices[device_id][visit[i]], device_id, visit[i],
             Some(location))]

\* DragCalls retrying the drag on the parent of the handler
DragCalls_RetryOnParent(location, device_id, visit) ==
    [i \in 1 .. 2 * Len(visit) |->
        LET button == visit[(i + 1) \div 2]
            handler == devices[device_id][button]
            target == IF i % 2 = 1 \/ parent[handler] = NoWidget
                      THEN handler ELSE parent[handler]
        IN  Call("mouse_drag", target, device_id, button,
                 Some(RelativeTo(location, target)))]

\* The drag branch: one mouse_drag per (button, handler) of the device, in
\* the order `visit` in which the HashMap yields the buttons
DragCalls(location, device_id, visit) ==
    [i \in 1 .. Len(visit) |->
        LET handler == devices[device_id][visit[i]]
        IN  Call("mouse_drag", handler, device_id, visit[i],
                 Some(RelativeTo(location, handler)))]

\* The hover branch: hit-test the candidates in order until one passes
HoverCalls(location, candidates, hit) ==
    LET probed == IF hit = 0 THEN Len(candidates) ELSE hit
        tests == [i \in 1 .. probed |->
                    Call("hit_test", candidates[i], NoDevice, NoButton,
                         Some(RelativeTo(location, candidates[i])))]
    IN  IF hit = 0
        THEN tests \o << Call("clear_hover", Root, NoDevice, NoButton, {}) >>
        ELSE tests \o << Call("hover", candidates[hit], NoDevice, NoButton,
                              Some(RelativeTo(location, candidates[hit]))) >>

\* Which branch cursor_moved takes for the device
IsDragging(device_id) == device_id \in DOMAIN devices

CursorMoved(device_id, position, hits) ==
    /\ mouse_location' = Some(position)
    /\ event' = Event("cursor_moved", device_id, NoButton, FALSE, "", NoMods,
                      Some(position), { w \in Widgets : hits[w] })
    /\ result' = NoWidget
    /\ IF IsDragging(device_id)
       THEN /\ \E visit \in Orderings(DOMAIN devices[device_id]) :
                 calls' = DragCalls(position, device_id, visit)
            /\ UNCHANGED << mouse_widget, hovered >>
       ELSE LET candidates == WidgetsAtPoint(position)
                hit == FirstHit(candidates, hits)
            IN  /\ calls' = HoverCalls(position, candidates, hit)
                /\ mouse_widget' =
                     IF hit = 0 THEN NoWidget ELSE candidates[hit]
                /\ hovered' =
                     IF hit = 0 THEN NoWidget ELSE candidates[hit]
    /\ UNCHANGED << parent, layout, render_order, focused, default_widget,
                    escape_widget, should_close, initial_frame,
                    keyboard_activated, devices, activations,
                    min_inner_size, max_inner_size, removed >>

CursorLeft(device_id) ==
    /\ mouse_widget' = NoWidget
    /\ IF mouse_widget # NoWidget
       THEN /\ hovered' = NoWidget
            /\ calls' = << Call("clear_hover", Root, NoDevice, NoButton, {}) >>
       ELSE /\ hovered' = hovered
            /\ calls' = << >>
    /\ event' = Event("cursor_left", NoDevice, NoButton, FALSE, "", NoMods,
                      {}, {})
    /\ result' = NoWidget
    /\ UNCHANGED << parent, layout, render_order, focused, default_widget,
                    escape_widget, should_close, initial_frame,
                    keyboard_activated, mouse_location, devices, activations,
                    min_inner_size, max_inner_size, removed >>

-----------------------------------------------------------------------------
(* mouse_input *)

RECURSIVE MouseDownCalls(_, _, _, _, _)
\* What the bubbling of a press does on the widgets of `visited`: the
\* closure calls mouse_down with the offset from the widget's own layout,
\* and the handler of a widget of `wants_focus` focuses its widget
MouseDownCalls(visited, location, device_id, button, wants_focus) ==
    IF visited = << >> THEN << >>
    ELSE LET w == Head(visited)
         IN  << Call("mouse_down", w, device_id, button,
                     Some(RelativeTo(location, w))) >>
             \o (IF w \in wants_focus
                 THEN << Call("focus", w, NoDevice, NoButton, {}) >> ELSE << >>)
             \o MouseDownCalls(Tail(visited), location, device_id, button,
                               wants_focus)

\* The focused widget a sequence of calls leaves, starting from `before`:
\* clear_focus empties it and focus sets it
FocusAfter(before, log) ==
    LET changes == { i \in 1 .. Len(log) :
                        log[i].op \in {"clear_focus", "focus"} }
    IN  IF changes = {} THEN before
        ELSE LET last == CHOOSE i \in changes : \A j \in changes : j <= i
             IN  IF log[last].op = "focus" THEN log[last].w ELSE NoWidget

\* A press that clears the focus only when no widget is under the cursor
PressCalls_ClearWhenMissed(device_id, button, handles, wants_focus) ==
    IF mouse_location # {} /\ mouse_widget # NoWidget
    THEN MouseDownCalls(
             RecursivelyHandleEvent(mouse_widget, handles).visited,
             Unwrap(mouse_location), device_id, button, wants_focus)
    ELSE << Call("clear_focus", Root, NoDevice, NoButton, {}) >>

\* A press that falls back to the root when no widget is under the cursor
PressCalls_RootWhenMissed(device_id, button, handles, wants_focus) ==
    << Call("clear_focus", Root, NoDevice, NoButton, {}) >>
    \o (IF mouse_location # {} /\ mouse_widget # NoWidget
        THEN MouseDownCalls(
                 RecursivelyHandleEvent(mouse_widget, handles).visited,
                 Unwrap(mouse_location), device_id, button, wants_focus)
        ELSE << Call("mouse_down", Root, device_id, button, {}) >>)

\* The calls of a press: clear_focus on the root's context, then, when a
\* location is known and a widget is hovered, the bubbling of mouse_down
PressCalls(device_id, button, handles, wants_focus) ==
    << Call("clear_focus", Root, NoDevice, NoButton, {}) >>
    \o (IF mouse_location # {} /\ mouse_widget # NoWidget
        THEN MouseDownCalls(
                 RecursivelyHandleEvent(mouse_widget, handles).visited,
                 Unwrap(mouse_location), device_id, button, wants_focus)
        ELSE << >>)

\* Capture keeping the entry the pair already has
Capture_KeepFirst(device_id, button, handler) ==
    IF device_id \in DOMAIN devices /\ button \in DOMAIN devices[device_id]
    THEN devices
    ELSE MapInsert(devices, device_id,
                   MapInsert(IF device_id \in DOMAIN devices
                             THEN devices[device_id] ELSE EmptyMap,
                             button, handler))

\* Capture recording the hovered widget instead of the handler
Capture_Hovered(device_id, button, handler) ==
    MapInsert(devices, device_id,
              MapInsert(IF device_id \in DOMAIN devices
                        THEN devices[device_id] ELSE EmptyMap,
                        button, mouse_widget))

\* devices.entry(device_id).or_default().insert(button, handler)
Capture(device_id, button, handler) ==
    MapInsert(devices, device_id,
              MapInsert(IF device_id \in DOMAIN devices
                        THEN devices[device_id] ELSE EmptyMap,
                        button, handler))

MouseInputPressed(device_id, button, handles, wants_focus) ==
    LET log == PressCalls(device_id, button, handles, wants_focus)
        handler == IF mouse_location # {} /\ mouse_widget # NoWidget
                   THEN RecursivelyHandleEvent(mouse_widget, handles).consumer
                   ELSE NoWidget
    IN  /\ calls' = log
        /\ focused' = FocusAfter(focused, log)
        /\ result' = handler
        /\ devices' = IF handler # NoWidget
                      THEN Capture(device_id, button, handler)
                      ELSE devices
        /\ event' = [Event("mouse_input", device_id, button, TRUE, "",
                           NoMods, {}, { w \in Widgets : handles[w] })
                     EXCEPT !.replaced =
                        IF handler # NoWidget
                           /\ device_id \in DOMAIN devices
                           /\ button \in DOMAIN devices[device_id]
                        THEN { devices[device_id][button] } ELSE {}]
        /\ UNCHANGED << activations, parent, layout, render_order, hovered,
                        default_widget, escape_widget, should_close,
                        initial_frame, keyboard_activated, mouse_location,
                        mouse_widget,
                        min_inner_size, max_inner_size, removed >>

\* Uncapture reading the handler with get instead of remove
Uncapture_Get(device_id, button) == devices

\* Uncapture leaving the device's entry when its map is emptied
Uncapture_KeepDevice(device_id, button) ==
    [devices EXCEPT ![device_id] = MapRemove(devices[device_id], button)]

\* device_buttons.remove(&button), and the device's entry with it when that
\* empties the device's map
Uncapture(device_id, button) ==
    LET device_buttons == MapRemove(devices[device_id], button)
    IN  IF DOMAIN device_buttons = {}
        THEN MapRemove(devices, device_id)
        ELSE [devices EXCEPT ![device_id] = device_buttons]

\* The offset mouse_up is given: the location relative to the handler's
\* last layout when both are known
ReleaseOffset(handler) ==
    IF LastLayout(handler) # {} /\ mouse_location # {}
    THEN Some(RelativeTo(Unwrap(mouse_location), handler))
    ELSE {}

\* ReleaseCalls delivering to the widget under the cursor when there is one
ReleaseCalls_Hovered(device_id, button) ==
    LET handler == IF mouse_widget # NoWidget THEN mouse_widget
                   ELSE devices[device_id][button]
    IN  << Call("mouse_up", handler, device_id, button,
                ReleaseOffset(handler)) >>

\* The release of a captured button: mouse_up on the context of the handler
\* removed from the map
ReleaseCalls(device_id, button) ==
    LET handler == devices[device_id][button]
    IN  << Call("mouse_up", handler, device_id, button,
                ReleaseOffset(handler)) >>

\* `handles` is what the mouse_up handlers would answer: mouse_input reads
\* no answer of mouse_up
MouseInputReleased(device_id, button, handles) ==
    /\ event' = Event("mouse_input", device_id, button, FALSE, "", NoMods,
                      {}, { w \in Widgets : handles[w] })
    /\ result' = NoWidget
    /\ IF device_id \in DOMAIN devices /\ button \in DOMAIN devices[device_id]
       THEN /\ devices' = Uncapture(device_id, button)
            /\ calls' = ReleaseCalls(device_id, button)
       ELSE /\ devices' = devices
            /\ calls' = << >>
    /\ UNCHANGED << activations, parent, layout, render_order, focused, hovered,
                    default_widget, escape_widget, should_close,
                    initial_frame, keyboard_activated, mouse_location,
                    mouse_widget,
                    min_inner_size, max_inner_size, removed >>

-----------------------------------------------------------------------------
(* keyboard_input, ime and mouse_wheel *)

Keys == {"w", "Tab", "Enter", "Escape", "a"}

\* window.modifiers(): primary() is one of the keys possible_shortcut() holds
ModSets ==
    { m \in [primary : BOOLEAN, shift : BOOLEAN, shortcut : BOOLEAN] :
        m.primary => m.shortcut }

\* VisualOrder, the value of the LayoutOrder style component, and its rev()
LayoutOrders == {"ltr", "rtl"}
Rev(order) == IF order = "ltr" THEN "rtl" ELSE "ltr"

\* Tree::widget(id): the id resolves unless its widget was removed
Resolves(id) == id \in Widgets \ removed

\* The target of a key or IME event: the focused widget, or the root
FocusTarget == IF focused # NoWidget THEN focused ELSE Root

\* The target of an IME event: the focused widget when it resolves, or the
\* root
ImeTarget ==
    IF focused # NoWidget /\ Resolves(focused) THEN focused ELSE Root

\* The target of a wheel event: the tree's hovered widget when it resolves,
\* or the root
HoverTarget ==
    IF hovered # NoWidget /\ Resolves(hovered) THEN hovered ELSE Root

\* The calls of the bubbling of `op` from `target`
BubbleCalls(op, target, handles) ==
    LET visited == RecursivelyHandleEvent(target, handles).visited
    IN  [i \in 1 .. Len(visited) |->
            Call(op, visited[i], NoDevice, NoButton, {})]

\* The arm of the match on the logical key that an unhandled event takes
KeyArm(key, mods) ==
    CASE key = "w" /\ mods.primary -> "close"
      [] key = "Tab" /\ ~mods.shortcut -> "tab"
      [] key = "Enter" -> "enter"
      [] key = "Escape" -> "escape"
      [] OTHER -> "ignored"

\* The match on the key taken whether a widget handled the event or not
ArmTaken_EvenWhenHandled(handled, key, mods) == KeyArm(key, mods)

\* `if !handled { match input.logical_key .. }`: the arm that runs
ArmTaken(handled, key, mods) ==
    IF handled THEN "handled" ELSE KeyArm(key, mods)

\* request_close assigning the behaviour's answer instead of or-ing it
RequestClose_Assign(allow) == allow

\* request_close: should_close |= behavior.close_requested(window)
RequestClose(allow) == should_close \/ allow

\* The close arm requesting the redraw whatever request_close returns
CloseCalls_RedrawAlways(pressed, allow) ==
    IF pressed
    THEN << Call("close_requested", NoWidget, NoDevice, NoButton, {}),
            Call("set_needs_redraw", NoWidget, NoDevice, NoButton, {}) >>
    ELSE << >>

\* The close arm: on a press the behaviour is asked, and a redraw is
\* requested when request_close returns true
CloseCalls(pressed, allow) ==
    IF pressed
    THEN << Call("close_requested", NoWidget, NoDevice, NoButton, {}) >>
         \o (IF RequestClose(allow)
             THEN << Call("set_needs_redraw", NoWidget, NoDevice, NoButton,
                          {}) >>
             ELSE << >>)
    ELSE << >>

\* TabDirection without visual_order.rev()
TabDirection_NoReverse(order, mods) == order

\* The Tab arm: the order of the target's style, reversed with shift
TabDirection(order, mods) == IF mods.shift THEN Rev(order) ELSE order

\* One step along the ring 1, 2, ..., NumWidgets, 1 in the direction given
RingStep(from, direction) ==
    IF direction = "ltr"
    THEN (from % NumWidgets) + 1
    ELSE ((from + NumWidgets - 2) % NumWidgets) + 1

RECURSIVE AdvanceFocus(_, _)
\* EventContext::advance_focus: the widgets form one closed traversal
\* order, the ring 1, 2, ..., NumWidgets, 1 in left-to-right order; the
\* focus moves along it in the direction given to the next widget of the
\* tree
AdvanceFocus(from, direction) ==
    IF Resolves(RingStep(from, direction))
    THEN RingStep(from, direction)
    ELSE AdvanceFocus(RingStep(from, direction), direction)

\* The Tab arm: on a press, advance_focus from the focused widget or the
\* root (the direction is logged in the call's btn field)
TabCalls(pressed, order, mods) ==
    IF pressed
    THEN << Call("advance_focus", FocusTarget, NoDevice,
                 TabDirection(order, mods), {}) >>
    ELSE << >>

\* keyboard_activate_widget deactivating after it activated
ActivateCalls_DeactivateLast(is_pressed, widget) ==
    IF is_pressed
    THEN IF widget # NoWidget /\ Resolves(widget)
         THEN << Call("activate", widget, NoDevice, NoButton, {}) >>
              \o (IF keyboard_activated # NoWidget
                  THEN << Call("deactivate", keyboard_activated, NoDevice,
                               NoButton, {}) >>
                  ELSE << >>)
         ELSE << >>
    ELSE IF keyboard_activated # NoWidget
         THEN << Call("deactivate", keyboard_activated, NoDevice, NoButton,
                      {}) >>
         ELSE << >>

\* keyboard_activate_widget leaving the previous widget activated on a press
ActivateCalls_KeepPrevious(is_pressed, widget) ==
    IF is_pressed
    THEN IF widget # NoWidget /\ Resolves(widget)
         THEN << Call("activate", widget, NoDevice, NoButton, {}) >>
         ELSE << >>
    ELSE IF keyboard_activated # NoWidget
         THEN << Call("deactivate", keyboard_activated, NoDevice, NoButton,
                      {}) >>
         ELSE << >>

\* keyboard_activate_widget deactivating on key-up only the widget of the
\* key's own slot
ActivateCalls_OwnSlotOnly(is_pressed, widget) ==
    IF is_pressed
    THEN IF widget # NoWidget /\ Resolves(widget)
         THEN (IF keyboard_activated # NoWidget
               THEN << Call("deactivate", keyboard_activated, NoDevice,
                            NoButton, {}) >>
               ELSE << >>)
              \o << Call("activate", widget, NoDevice, NoButton, {}) >>
         ELSE << >>
    ELSE IF keyboard_activated # NoWidget /\ keyboard_activated = widget
         THEN << Call("deactivate", keyboard_activated, NoDevice, NoButton,
                      {}) >>
         ELSE << >>

\* keyboard_activate_widget: the calls it makes
ActivateCalls(is_pressed, widget) ==
    IF is_pressed
    THEN IF widget # NoWidget /\ Resolves(widget)
         THEN (IF keyboard_activated # NoWidget
               THEN << Call("deactivate", keyboard_activated, NoDevice,
                            NoButton, {}) >>
               ELSE << >>)
              \o << Call("activate", widget, NoDevice, NoButton, {}) >>
         ELSE << >>
    ELSE IF keyboard_activated # NoWidget
         THEN << Call("deactivate", keyboard_activated, NoDevice, NoButton,
                      {}) >>
         ELSE << >>

\* keyboard_activate_widget forgetting to take keyboard_activated on key-up
ActivatedAfter_KeepOnRelease(is_pressed, widget) ==
    IF is_pressed /\ widget # NoWidget /\ Resolves(widget)
    THEN widget
    ELSE keyboard_activated

\* keyboard_activate_widget: the value it leaves in keyboard_activated
ActivatedAfter(is_pressed, widget) ==
    IF is_pressed
    THEN IF widget # NoWidget /\ Resolves(widget)
         THEN widget
         ELSE keyboard_activated
    ELSE NoWidget

RECURSIVE Activations(_, _)
\* The activations after the calls of `log`, starting from `counts`
Activations(counts, log) ==
    IF log = << >> THEN counts
    ELSE LET c == Head(log)
             next == IF c.op = "activate"
                     THEN [counts EXCEPT ![c.w] = @ + 1]
                     ELSE IF c.op = "deactivate"
                          THEN [counts EXCEPT ![c.w] = @ - 1]
                          ELSE counts
         IN  Activations(next, Tail(log))

\* The slot an arm activates
ArmSlot(arm) == IF arm = "enter" THEN default_widget ELSE escape_widget

\* What the window itself does with a key event no widget handled
WindowKeyCalls(arm, pressed, mods, allow, order) ==
    CASE arm = "close" -> CloseCalls(pressed, allow)
      [] arm = "tab" -> TabCalls(pressed, order, mods)
      [] arm \in {"enter", "escape"} -> ActivateCalls(pressed, ArmSlot(arm))
      [] OTHER -> << >>

\* .expect("missing widget") on an id that does not resolve: the handler
\* panics before it calls any widget
MissingWidget(id) ==
    /\ calls' = << Call("panic", id, NoDevice, NoButton, {}) >>
    /\ result' = NoWidget
    /\ UNCHANGED << parent, layout, render_order, focused, hovered,
                    default_widget, escape_widget, should_close,
                    initial_frame, keyboard_activated, mouse_location,
                    mouse_widget, devices, activations, min_inner_size,
                    max_inner_size, removed >>

\* keyboard_input starting at the hovered widget
KeyboardTarget_Hovered == HoverTarget

\* The widget keyboard_input looks up: the focused id, or the root's
KeyboardTarget == FocusTarget

KeyboardInput(key, pressed, mods, handles, allow, order) ==
    LET target == KeyboardTarget
        routed == RecursivelyHandleEvent(target, handles)
        handled == routed.consumer # NoWidget
        arm == ArmTaken(handled, key, mods)
        window_calls == WindowKeyCalls(arm, pressed, mods, allow, order)
    IN  /\ event' = [Event("keyboard_input", NoDevice, NoButton, pressed, key,
                           mods, {}, { w \in Widgets : handles[w] })
                     EXCEPT !.order = order, !.allow = allow]
        /\ IF ~Resolves(target)
           THEN MissingWidget(target)
           ELSE /\ calls' = BubbleCalls("keyboard_input", target, handles)
                            \o window_calls
                /\ result' = routed.consumer
                /\ should_close' = IF arm = "close" /\ pressed
                                   THEN RequestClose(allow) ELSE should_close
                /\ focused' =
                     IF window_calls # << >> /\ arm = "tab"
                     THEN AdvanceFocus(window_calls[1].w, window_calls[1].btn)
                     ELSE focused
                /\ keyboard_activated' =
                     IF arm \in {"enter", "escape"}
                     THEN ActivatedAfter(pressed, ArmSlot(arm))
                     ELSE keyboard_activated
                /\ activations' = Activations(activations, window_calls)
                /\ UNCHANGED << parent, layout, render_order, hovered,
                                default_widget, escape_widget, initial_frame,
                                mouse_location, mouse_widget, devices,
                                min_inner_size, max_inner_size, removed >>

\* What a handler returns to the host, logged as the last of its calls
Returns(value) ==
    Call("returns", NoWidget, NoDevice, IF value THEN "true" ELSE "false", {})

\* close_requested of the host: request_close, whose value is returned
CloseRequested(allow) ==
    /\ should_close' = RequestClose(allow)
    /\ calls' = << Call("close_requested", NoWidget, NoDevice, NoButton, {}),
                   Returns(RequestClose(allow)) >>
    /\ event' = [Event("close_requested", NoDevice, NoButton, FALSE, "",
                       NoMods, {}, {}) EXCEPT !.allow = allow]
    /\ result' = NoWidget
    /\ UNCHANGED << parent, layout, render_order, focused, hovered,
                    default_widget, escape_widget, initial_frame,
                    keyboard_activated, mouse_location, mouse_widget, devices,
                    activations, min_inner_size, max_inner_size, removed >>

\* render: the contents are rendered and !should_close is returned
Render ==
    /\ calls' = << Call("render", Root, NoDevice, NoButton, {}),
                   Returns(~should_close) >>
    /\ event' = Event("render", NoDevice, NoButton, FALSE, "", NoMods, {}, {})
    /\ result' = NoWidget
    /\ UNCHANGED << parent, layout, render_order, focused, hovered,
                    default_widget, escape_widget, should_close,
                    initial_frame, keyboard_activated, mouse_location,
                    mouse_widget, devices, activations, min_inner_size,
                    max_inner_size, removed >>

MouseWheel(handles) ==
    /\ calls' = BubbleCalls("mouse_wheel", HoverTarget, handles)
    /\ result' = RecursivelyHandleEvent(HoverTarget, handles).consumer
    /\ event' = Event("mouse_wheel", NoDevice, NoButton, FALSE, "", NoMods, {},
                      { w \in Widgets : handles[w] })
    /\ UNCHANGED << activations, parent, layout, render_order, focused, hovered,
                    default_widget, escape_widget, should_close,
                    initial_frame, keyboard_activated, mouse_location,
                    mouse_widget, devices,
                    min_inner_size, max_inner_size, removed >>

Ime(handles) ==
    /\ calls' = BubbleCalls("ime", ImeTarget, handles)
    /\ result' = RecursivelyHandleEvent(ImeTarget, handles).consumer
    /\ event' = Event("ime", NoDevice, NoButton, FALSE, "", NoMods, {},
                      { w \in Widgets : handles[w] })
    /\ UNCHANGED << activations, parent, layout, render_order, focused, hovered,
                    default_widget, escape_widget, should_close,
                    initial_frame, keyboard_activated, mouse_location,
                    mouse_widget, devices,
                    min_inner_size, max_inner_size, removed >>

RECURSIVE Subtree(_)
\* w and the widgets below it
Subtree(w) ==
    {w} \cup UNION { Subtree(c) : c \in { v \in Widgets : parent[v] = w } }

\* The tree changes shape: w and the widgets below it are removed, and the
\* ids stored in the tree's slots are left as they are
RemoveWidget(w) ==
    /\ w # Root
    /\ w \notin removed
    /\ removed' = removed \cup Subtree(w)
    /\ event' = Event("remove", NoDevice, NoButton, FALSE, "", NoMods, {}, {})
    /\ calls' = << >>
    /\ result' = NoWidget
    /\ UNCHANGED << parent, layout, render_order, focused, hovered,
                    default_widget, escape_widget, should_close,
                    initial_frame, keyboard_activated, mouse_location,
                    mouse_widget, devices, activations, min_inner_size,
                    max_inner_size >>

-----------------------------------------------------------------------------
(* The state after GooeyWindow::initialize, for every tree make_root builds *)

InitWith(trees) ==
    /\ parent \in trees
    /\ layout = [w \in Widgets |-> {}]
    /\ render_order = << >>
    /\ focused = NoWidget
    /\ hovered = NoWidget
    /\ default_widget = NoWidget
    /\ escape_widget = NoWidget
    /\ should_close = FALSE
    /\ initial_frame = TRUE
    /\ keyboard_activated = NoWidget
    /\ mouse_location = {}
    /\ mouse_widget = NoWidget
    /\ devices = EmptyMap
    /\ event = NoEvent
    /\ calls = << >>
    /\ result = NoWidget
    /\ activations = [w \in Widgets |-> 0]
    /\ min_inner_size = {}
    /\ max_inner_size = {}
    /\ removed = {}

\* What the handlers of the widgets of `invoked` can answer: the answer of a
\* widget that is not invoked is immaterial and taken to be IGNORED
Handlings(invoked) ==
    { [w \in Widgets |-> w \in hs] : hs \in SUBSET invoked }

\* The answers in which the widgets of the sequence `asked` answer from some
\* position on, or none does: a handler that asks the widgets in this order
\* and stops at the first answer cannot tell any other answers from these
AnswersFrom(asked) ==
    { [w \in Widgets |-> \E j \in i .. Len(asked) : asked[j] = w] :
        i \in 1 .. Len(asked) + 1 }

\* The set of the members of a sequence
Range(s) == { s[i] : i \in 1 .. Len(s) }

\* No widget answers
NoAnswers == [w \in Widgets |-> FALSE]

(* The pointer: frames and the events of the mouse, for the (device,      *)
(* button) pairs and layout configurations given, with handlers of         *)
(* `focusers` able to take the focus and mouse_up handlers answering one   *)
(* of `releases`                                                           *)
PointerNext(pairs, configs, focusers, releases) ==
    \/ \E k \in configs, f \in {NoWidget} \cup focusers :
          Prepare(k, f, NoWidget, NoWidget)
    \/ \E d \in { p[1] : p \in pairs }, pos \in Positions :
          \E hits \in IF IsDragging(d) THEN {NoAnswers}
                       ELSE AnswersFrom(WidgetsAtPoint(pos)) :
             CursorMoved(d, pos, hits)
    \/ \E d \in { p[1] : p \in pairs } : CursorLeft(d)
    \/ \E p \in pairs :
          LET handles_asked == IF mouse_widget = NoWidget THEN << >>
                               ELSE Ancestors(mouse_widget)
          IN
          \E handles \in AnswersFrom(handles_asked),
             wants_focus \in SUBSET (focusers \cap Range(handles_asked)) :
             MouseInputPressed(p[1], p[2], handles, wants_focus)
    \/ \E p \in pairs, handles \in releases :
          MouseInputReleased(p[1], p[2], handles)

\* A mouse with two buttons and a touch device with one
DragPairs ==
    { << "mouse", "Left" >>, << "mouse", "Right" >>, << "touch", "Left" >> }

NextDrag == PointerNext(DragPairs, LayoutConfigs, {}, {NoAnswers})

InitPointer == InitWith({HeapTree})

SpecDrag == InitPointer /\ [][NextDrag]_vars

\* The pointer with one button and handlers that may take the focus
NextFocus ==
    PointerNext({ << "mouse", "Left" >> }, LayoutConfigs, Widgets,
                {NoAnswers})

SpecFocus == InitPointer /\ [][NextFocus]_vars

\* The modifiers a key event is tried with: those its arm reads
ModsFor(key) ==
    { m \in ModSets :
        /\ key # "w" => ~m.primary
        /\ key # "Tab" => ~m.shift
        /\ key \notin {"w", "Tab"} => ~m.shortcut
        /\ key = "w" => m.shortcut = m.primary }

(* The keyboard: the first frame, in which one of `defaults` and one of    *)
(* `escapes` become the default and the escape widget, and the events of   *)
(* the keys of `keys`; the answer of close_requested and the LayoutOrder   *)
(* vary where the key's arm reads them                                     *)
KeyboardNext(keys, defaults, escapes) ==
    \/ \E f \in OptWidget, default \in defaults, escape \in escapes :
          Prepare(0, f, default, escape)
    \/ \E key \in keys, pressed \in BOOLEAN :
          \E mods \in ModsFor(key),
             allow \in IF key = "w" THEN BOOLEAN ELSE {FALSE},
             order \in IF key = "Tab" THEN LayoutOrders ELSE {"ltr"},
             handles \in AnswersFrom(Ancestors(FocusTarget)) :
             KeyboardInput(key, pressed, mods, handles, allow, order)

InitKeyboard == InitWith(Trees)

\* Enter and Escape, with the default widget absent or widget 2 and the
\* escape widget absent, widget 2 or the last widget
NextActivate ==
    KeyboardNext({"Enter", "Escape", "a"}, {NoWidget, 2},
                 {NoWidget, 2, NumWidgets})

SpecActivate == InitKeyboard /\ [][NextActivate]_vars

(* Closing: the close chord and another key, the host's close request,  *)
(* with a behaviour that allows or refuses the close, and the rendering   *)
NextClose ==
    \/ KeyboardNext({"w", "a"}, {NoWidget}, {NoWidget})
    \/ \E allow \in BOOLEAN : CloseRequested(allow)
    \/ Render

SpecClose == InitKeyboard /\ [][NextClose]_vars

(* Every arm of the window's key handling, in the tree of InitPointer     *)
(* with widget 2 as the default and the last widget as the escape widget  *)
NextKeys ==
    \/ \E f \in {NoWidget, 2} : Prepare(0, f, 2, NumWidgets)
    \/ \E key \in {"w", "Tab", "Enter", "Escape"}, pressed \in BOOLEAN :
          \E mods \in { m \in ModsFor(key) : key = "w" => m.primary },
             allow \in IF key = "w" THEN BOOLEAN ELSE {FALSE},
             handles \in AnswersFrom(Ancestors(FocusTarget)) :
             KeyboardInput(key, pressed, mods, handles, allow, "ltr")

SpecKeys == InitPointer /\ [][NextKeys]_vars

(* Enter and Escape in a tree that widgets are removed from, with the      *)
(* default and the escape widget absent or widgets 2 and 3                 *)
NextSlots ==
    \/ \E default \in {NoWidget, 2}, escape \in {NoWidget, 3} :
          Prepare(0, NoWidget, default, escape)
    \/ \E w \in Widgets : RemoveWidget(w)
    \/ \E key \in {"Enter", "Escape"}, pressed \in BOOLEAN :
          \E handles \in AnswersFrom(Ancestors(FocusTarget)) :
             KeyboardInput(key, pressed, NoMods, handles, FALSE, "ltr")

SpecSlots == InitPointer /\ [][NextSlots]_vars

\* Tab, with and without shift and a shortcut modifier
NextTab == KeyboardNext({"Tab", "a"}, {NoWidget}, {NoWidget})

SpecTab == InitKeyboard /\ [][NextTab]_vars

(* The router: the first frame, the hover, and the events that bubble from *)
(* the focused or the hovered widget, with every combination of answers    *)
NextRouter ==
    \/ \E f \in OptWidget : Prepare(0, f, NoWidget, NoWidget)
    \/ \E pos \in Positions :
          \E hits \in AnswersFrom(WidgetsAtPoint(pos)) :
             CursorMoved("mouse", pos, hits)
    \/ \E pressed \in BOOLEAN, handles \in Handlings(Widgets) :
          KeyboardInput("a", pressed, NoMods, handles, FALSE, "ltr")
    \/ \E handles \in Handlings(Widgets) : MouseWheel(handles)
    \/ \E handles \in Handlings(Widgets) : Ime(handles)

SpecRouter == InitKeyboard /\ [][NextRouter]_vars

\* The sizes a layout answers and a window has, in pixels
Sizes == { << 100 * a, 50 * b >> : a, b \in 1 .. MaxDim }

DiagonalSizes == { << 100 * a, 50 * a >> : a \in 1 .. MaxDim }

\* The widgets a wrap chain is made of: a Resize with a minimum of 300x150
\* and no maximum, a Resize of 100..200 by 50..100, an Expand and a wrapper
\* of another type
MinNode == Node("Resize", Some(300), {}, Some(150), {})

SmallNode == Node("Resize", Some(100), Some(200), Some(50), Some(100))

ExpandNode == Node("Expand", {}, {}, {}, {})

OtherNode == Node("Other", {}, {}, {}, {})

ChainNodes == { MinNode, SmallNode, ExpandNode, OtherNode }

\* The wrap chains from the root, made of `nodes`: the root and the widgets
\* it wraps, at most `longest` of them
Chains(nodes, longest) ==
    UNION { [1 .. n -> nodes] : n \in 1 .. longest }

(* The frames of a window of 200x100, resizable or not, over the wrap      *)
(* chains of Resize widgets and other wrappers                             *)
NextResize ==
    \E resizable \in BOOLEAN,
       chain \in Chains({ MinNode, SmallNode, OtherNode }, MaxChain),
       actual_size \in DiagonalSizes :
       PrepareFrame(0, NoWidget, NoWidget, NoWidget, resizable, chain,
                    << 200, 100 >>, actual_size)

SpecResize == InitPointer /\ [][NextResize]_vars

\* Whether the last handler panicked
Panicked == \E i \in 1 .. Len(calls) : calls[i].op = "panic"

(* The events that look a stored id up, in a tree that widgets are removed *)
(* from; nothing runs after a panic                                        *)
NextStale ==
    \/ ~Panicked /\ \E f \in {NoWidget, 2} : Prepare(0, f, 2, NoWidget)
    \/ /\ ~Panicked
       /\ \E pos \in Positions :
             \E hits \in AnswersFrom(WidgetsAtPoint(pos)) :
                CursorMoved("mouse", pos, hits)
    \/ ~Panicked /\ \E w \in Widgets : RemoveWidget(w)
    \/ /\ ~Panicked
       /\ \E key \in {"Tab", "Enter"}, pressed \in BOOLEAN :
             \E handles \in AnswersFrom(Ancestors(KeyboardTarget)) :
                KeyboardInput(key, pressed, NoMods, handles, FALSE, "ltr")
    \/ /\ ~Panicked
       /\ \E handles \in AnswersFrom(Ancestors(HoverTarget)) :
             MouseWheel(handles)
    \/ /\ ~Panicked
       /\ \E handles \in AnswersFrom(Ancestors(ImeTarget)) : Ime(handles)

SpecStale == InitPointer /\ [][NextStale]_vars

\* A mouse with two buttons over the overlapping layout, with mouse_up
\* handlers that answer HANDLED or IGNORED
NextBubble ==
    PointerNext({ << "mouse", "Left" >>, << "mouse", "Right" >> }, {0}, {},
                { NoAnswers, [w \in Widgets |-> TRUE] })

SpecBubble == InitPointer /\ [][NextBubble]_vars

(* The frames of a window of 200x100 or 300x150 whose root is a Resize,  *)
(* an Expand or another widget that wraps nothing, with every size the     *)
(* layout can answer                                                       *)
NextFrame ==
    \E f \in {2}, resizable \in BOOLEAN, chain \in Chains(ChainNodes, 1),
       window_size \in { << 200, 100 >>, << 300, 150 >> },
       actual_size \in Sizes :
       PrepareFrame(0, f, NoWidget, NoWidget, resizable, chain, window_size,
                    actual_size)

SpecFrame == InitPointer /\ [][NextFrame]_vars

-----------------------------------------------------------------------------
(* Properties of the capture map (mouse_input, cursor_moved) *)

\* The (device, button) pair has an entry in MouseState::devices
HasCapture(d, b) == d \in DOMAIN devices /\ b \in DOMAIN devices[d]

IsPress(e, d, b) ==
    e.kind = "mouse_input" /\ e.pressed /\ e.dev = d /\ e.btn = b

IsRelease(e, d, b) ==
    e.kind = "mouse_input" /\ ~e.pressed /\ e.dev = d /\ e.btn = b

\* C1: over any sequence of presses and releases, the entry of a (device,
\* button) pair appears only in a press of that pair, which records its
\* consumer, disappears only in a release of that pair, and no entry of the
\* pair remains after a release of it.
C1_CaptureCreatedOnPressRemovedOnRelease ==
    [][ \A d \in DeviceIds, b \in MouseButtons :
          /\ IsRelease(event', d, b) => ~HasCapture(d, b)'
          /\ (IsPress(event', d, b) /\ result' # NoWidget)
                => (HasCapture(d, b)' /\ devices'[d][b] = result')
          /\ (~HasCapture(d, b) /\ HasCapture(d, b)') => IsPress(event', d, b)
          /\ (HasCapture(d, b) /\ ~HasCapture(d, b)')
                => IsRelease(event', d, b) ]_vars

\* C1 witness: a release has just removed the entry a press created, while
\* another button of the same device is still captured
C1_Witness ==
    /\ IsRelease(event, "mouse", "Left")
    /\ CallsOf(calls, {"mouse_up"}) # << >>
    /\ HasCapture("mouse", "Right")
    /\ ~HasCapture("mouse", "Left")

\* C2: the release of a captured (device, button) pair calls mouse_up once,
\* on the widget the pair was captured by and on no other, with the offset
\* of the cursor from that widget's last layout origin when both are known
\* and none otherwise, wherever the cursor is and whatever is hovered.
C2_ReleaseGoesToCapturingWidget ==
    [][ \A d \in DeviceIds, b \in MouseButtons :
          (HasCapture(d, b) /\ IsRelease(event', d, b)) =>
              LET W == devices[d][b]
                  offset == IF layout[W] # {} /\ mouse_location # {}
                            THEN { PointSub(Unwrap(mouse_location),
                                            Unwrap(layout[W]).origin) }
                            ELSE {}
              IN  calls' = << Call("mouse_up", W, d, b, offset) >> ]_vars

\* C2 witness: mouse_up reaches the capturing widget although the cursor is
\* outside its rectangle and another widget is hovered
C2_Witness ==
    /\ event.kind = "mouse_input" /\ ~event.pressed
    /\ Len(calls) = 1 /\ calls[1].op = "mouse_up"
    /\ mouse_widget # NoWidget /\ mouse_widget # calls[1].w
    /\ mouse_location # {}
    /\ ~RectContains(Unwrap(layout[calls[1].w]), Unwrap(mouse_location))
    /\ calls[1].off # {}

\* C3: a cursor_moved of a device with captured buttons recomputes no hover
\* (no hit_test, hover or clear_hover call; the hovered widget is kept) and
\* calls mouse_drag exactly once per captured (button, widget) pair of the
\* device, with the offset of the new location from that widget's last
\* layout origin.
C3_DragInsteadOfHover ==
    [][ \A d \in DeviceIds :
          (d \in DOMAIN devices /\ DOMAIN devices[d] # {}
             /\ event'.kind = "cursor_moved" /\ event'.dev = d) =>
              /\ CallsOf(calls', {"hit_test", "hover", "clear_hover"}) = << >>
              /\ mouse_widget' = mouse_widget
              /\ hovered' = hovered
              /\ Len(calls') = Cardinality(DOMAIN devices[d])
              /\ \A b \in DOMAIN devices[d] :
                    \E i \in 1 .. Len(calls') :
                        calls'[i] =
                          Call("mouse_drag", devices[d][b], d, b,
                               { PointSub(
                                   Unwrap(event'.pos),
                                   Unwrap(layout[devices[d][b]]).origin) })
        ]_vars

\* C3 witness: a drag of two captured buttons of a device, delivered to two
\* different widgets, while a widget is hovered
C3_Witness ==
    /\ event.kind = "cursor_moved"
    /\ Len(calls) = 2
    /\ calls[1].op = "mouse_drag" /\ calls[2].op = "mouse_drag"
    /\ calls[1].w # calls[2].w
    /\ calls[1].off # event.pos
    /\ mouse_widget # NoWidget

-----------------------------------------------------------------------------
(* Properties of the router (recursively_handle_event) *)

\* The events that are delivered by bubbling
Bubbles(e) == e.kind \in {"keyboard_input", "ime", "mouse_wheel"}

\* The widget the bubbling of the last event started at
BubbleTarget ==
    IF event.kind = "mouse_wheel"
    THEN (IF hovered # NoWidget THEN hovered ELSE Root)
    ELSE (IF event.focus # NoWidget THEN event.focus ELSE Root)

\* The handler calls of the last event, as the widgets they were made on
Invoked ==
    LET made == CallsOf(calls, {"keyboard_input", "ime", "mouse_wheel"})
    IN  [i \in 1 .. Len(made) |-> made[i].w]

\* C4: recursively_handle_event returns the first node of the path target,
\* parent(target), ..., root whose handler answers HANDLED, and none when
\* every node of the path answers IGNORED.
C4_ReturnsFirstHandlerOnPath ==
    Bubbles(event) =>
        LET path == Ancestors(BubbleTarget)
            handlers == { i \in 1 .. Len(path) : path[i] \in event.answers }
        IN  IF handlers = {} THEN result = NoWidget
            ELSE \E i \in handlers :
                    /\ \A j \in handlers : i <= j
                    /\ result = path[i]

\* C4 witness: the target and its parent ignore a key event and the root,
\* two levels up, consumes it
C4_Witness ==
    /\ event.kind = "keyboard_input"
    /\ Len(Ancestors(BubbleTarget)) = 3
    /\ result = Root
    /\ BubbleTarget \notin event.answers

\* C5: one delivery invokes the handler on the ancestor path of the target
\* only, in the order target, P1, P2, ..., each node at most once, never on
\* a widget off the path, and on no node after the first that answers
\* HANDLED; it ends at the root at the latest.
C5_BubblingIsMonotonic ==
    Bubbles(event) =>
        LET path == Ancestors(BubbleTarget)
            n == Len(Invoked)
        IN  /\ 1 <= n /\ n <= Len(path)
            /\ \A i \in 1 .. n : Invoked[i] = path[i]
            /\ \A i \in 1 .. n - 1 : Invoked[i] \notin event.answers
            /\ n < Len(path) => Invoked[n] \in event.answers

\* C5 witness: a widget off the path would handle the event and is not
\* asked, and the root, which would handle it too, is not asked once a
\* widget below it has handled the event
C5_Witness ==
    /\ Bubbles(event)
    /\ \E s \in event.answers : s \notin Range(Ancestors(BubbleTarget))
    /\ Len(Invoked) < Len(Ancestors(BubbleTarget))
    /\ Root \in event.answers

-----------------------------------------------------------------------------
(* Properties of the keyboard activation (keyboard_activate_widget) *)

\* An unhandled event of `key`, pressed or released
IsKey(e, r, key, pressed) ==
    /\ e.kind = "keyboard_input" /\ e.key = key /\ e.pressed = pressed
    /\ r = NoWidget

\* The slot of the tree that `key` activates
SlotOf(key) == IF key = "Enter" THEN default_widget ELSE escape_widget

ActiveAt(counts, log, k) ==
    { w \in Widgets : Activations(counts, SubSeq(log, 1, k))[w] > 0 }

\* C7: at every point of every key event, between any two calls of the
\* window, at most one widget is activated and not yet deactivated; a press
\* that activates a widget while another is recorded deactivates that one
\* first.
C7_OneKeyboardActivated ==
    [][ /\ \A k \in 0 .. Len(calls') :
              Cardinality(ActiveAt(activations, calls', k)) <= 1
        /\ \A i, j \in 1 .. Len(calls') :
              (calls'[i].op = "deactivate" /\ calls'[j].op = "activate")
                 => i < j ]_vars

\* C7 witness: a press has activated a widget while another one was
\* activated, which was deactivated first
C7_Witness ==
    /\ event.kind = "keyboard_input" /\ event.pressed
    /\ \E i, j \in 1 .. Len(calls) :
          /\ calls[i].op = "deactivate" /\ calls[j].op = "activate"
          /\ calls[i].w # calls[j].w
    /\ keyboard_activated # NoWidget

-----------------------------------------------------------------------------
(* Properties of the hover (cursor_moved without a drag) *)

\* The position of w in the render order of the last frame
RenderIndex(w) == CHOOSE i \in 1 .. Len(render_order) : render_order[i] = w

\* The rendered widgets whose layout contains `point` and whose precise hit
\* test passed in the last event
Passing(point) ==
    { w \in Range(render_order) :
        /\ LastLayout(w) # {}
        /\ RectContains(Unwrap(LastLayout(w)), point)
        /\ w \in event.answers }

\* C8: after a cursor move of a device without a drag, the hovered widget
\* is, of the widgets that contain the point and pass the hit test, the one
\* rendered last, and mouse_state.widget is that widget; when none passes,
\* clear_hover was called and neither the tree nor mouse_state has a
\* hovered widget.
C8_HoverPicksTopmost ==
    (event.kind = "cursor_moved" /\ ~IsDragging(event.dev)) =>
        LET passing == Passing(Unwrap(event.pos))
        IN  IF passing = {}
            THEN /\ hovered = NoWidget
                 /\ mouse_widget = NoWidget
                 /\ CallsOf(calls, {"clear_hover"}) # << >>
                 /\ CallsOf(calls, {"hover"}) = << >>
            ELSE \E b \in passing :
                    /\ \A a \in passing : RenderIndex(a) <= RenderIndex(b)
                    /\ hovered = b
                    /\ mouse_widget = b
                    /\ CallsOf(calls, {"clear_hover"}) = << >>

\* C8 witness: two widgets other than the root overlap at the point and
\* both pass the hit test; the one rendered after the other is hovered
C8_Witness ==
    /\ event.kind = "cursor_moved" /\ ~IsDragging(event.dev)
    /\ \E a, b \in Passing(Unwrap(event.pos)) \ {Root} :
          /\ RenderIndex(a) < RenderIndex(b)
          /\ b < a
          /\ hovered = b

-----------------------------------------------------------------------------
(* Properties of the Tab arm of keyboard_input *)

\* An unhandled press of Tab outside a shortcut chord, with or without shift
IsTabPress(e, r, shift) ==
    /\ e.kind = "keyboard_input" /\ e.key = "Tab" /\ e.pressed
    /\ e.mods.shift = shift /\ ~e.mods.shortcut
    /\ r = NoWidget

\* C9 as stated: with F focused, an unhandled Tab press followed by an
\* unhandled Shift+Tab press returns the focus to F, and a release of Tab
\* never moves the focus.
C9_TabRoundTrip ==
    [][ /\ (/\ IsTabPress(event, result, FALSE)
            /\ event.focus # NoWidget
            /\ IsTabPress(event', result', TRUE))
             => focused' = event.focus
        /\ (event'.kind = "keyboard_input" /\ event'.key = "Tab"
              /\ ~event'.pressed) => focused' = focused ]_vars

\* C9 amended: with F focused, an unhandled Tab press followed by an
\* unhandled Shift+Tab press returns the focus to F when the LayoutOrder
\* queried from the widget focused at the second press equals the one
\* queried from F at the first; a release of Tab never moves the focus and
\* calls advance_focus on no widget.
C9_TabRoundTripSameOrder ==
    [][ /\ (/\ IsTabPress(event, result, FALSE)
            /\ event.focus # NoWidget
            /\ IsTabPress(event', result', TRUE)
            /\ event'.order = event.order)
             => focused' = event.focus
        /\ (event'.kind = "keyboard_input" /\ event'.key = "Tab"
              /\ ~event'.pressed)
             => /\ focused' = focused
                /\ CallsOf(calls', {"advance_focus"}) = << >> ]_vars

\* C9 witness: an unhandled Shift+Tab press has moved the focus, against
\* the right-to-left order queried from the widget that was focused
C9_Witness ==
    /\ IsTabPress(event, result, TRUE)
    /\ event.focus # NoWidget
    /\ event.order = "rtl"
    /\ focused = AdvanceFocus(event.focus, "ltr")
    /\ focused # event.focus

-----------------------------------------------------------------------------
(* Properties of the press (mouse_input, Pressed) *)

\* C10: the first call of every press is clear_focus, before any
\* mouse_down, whether or not a widget is hovered; the focus after the
\* press is empty or was set by a focus call made during the press.
C10_PressClearsFocusFirst ==
    (event.kind = "mouse_input" /\ event.pressed) =>
        /\ calls # << >>
        /\ calls[1].op = "clear_focus"
        /\ \A i \in 1 .. Len(calls) : calls[i].op = "mouse_down" => i > 1
        /\ \/ focused = NoWidget
           \/ \E i \in 2 .. Len(calls) :
                 calls[i].op = "focus" /\ calls[i].w = focused

\* C10 witness: a press on a hovered widget while another widget held the
\* focus; no handler took the focus and the focus is empty
C10_Witness ==
    /\ event.kind = "mouse_input" /\ event.pressed
    /\ event.focus # NoWidget
    /\ CallsOf(calls, {"mouse_down"}) # << >>
    /\ CallsOf(calls, {"focus"}) = << >>
    /\ focused = NoWidget

-----------------------------------------------------------------------------
(* Properties of the window constraints (constrain_window_resizing) *)

\* The Resize widgets of a chain, as positions
ResizeAt(chain) == { i \in 1 .. Len(chain) : chain[i].kind = "Resize" }

\* Whether the last Resize of the chain is `node`
LastResizeIs(chain, node) ==
    /\ ResizeAt(chain) # {}
    /\ \E i \in ResizeAt(chain) :
          /\ \A j \in ResizeAt(chain) : j <= i
          /\ chain[i] = node

\* The position of the last Resize of a chain that has one
LastResize(chain) ==
    CHOOSE i \in ResizeAt(chain) : \A j \in ResizeAt(chain) : j <= i

\* The minimum cached when the walk reaches position i of the chain, in a
\* frame that started with `before` cached
CachedMinAt(chain, i, before) ==
    LET earlier == { j \in ResizeAt(chain) : j < i }
    IN  IF earlier = {} THEN before
        ELSE NewMinSize(chain[CHOOSE j \in earlier :
                                 \A l \in earlier : l <= j])

\* a <= b on both axes
SizeLeq(a, b) == a[1] <= b[1] /\ a[2] <= b[2]

\* The positions in the calls of the last handler of the calls of `op`
CallsAt(op) == { i \in 1 .. Len(calls) : calls[i].op = op }

\* C11 as stated: in a window of 200x100 that is not resizable and whose
\* wrap chain contains a minimum of 300x150, prepare sets the host's min
\* inner size to 300x150 and then requests a resize of at least 300x150;
\* every resize request is at least the cached minimum when the cached
\* maximum is not below it.
C11_ResizeToMinimum ==
    event.kind = "prepare" =>
        /\ (/\ ~event.frame.resizable
            /\ event.frame.window_size = << 200, 100 >>
            /\ \E i \in 1 .. Len(event.frame.chain) :
                  event.frame.chain[i] = MinNode)
             => \E i \in CallsAt("set_min_inner_size") :
                   /\ calls[i].off = Some(<< 300, 150 >>)
                   /\ \E j \in CallsAt("request_inner_size") :
                         /\ i < j
                         /\ SizeLeq(<< 300, 150 >>, Unwrap(calls[j].off))
        /\ \A j \in CallsAt("request_inner_size") :
              (/\ min_inner_size # {}
               /\ max_inner_size # {} =>
                    SizeLeq(Unwrap(min_inner_size), Unwrap(max_inner_size)))
                => SizeLeq(Unwrap(min_inner_size), Unwrap(calls[j].off))

\* C11 amended: in a window of 200x100 that is not resizable and whose
\* last Resize of the wrap chain has the minimum 300x150, prepare sets the
\* host's min inner size to 300x150 unless that is the value cached when
\* the walk reaches that Resize, and, when the layout answers a size other
\* than the window's, then requests a resize of at least 300x150; every
\* resize request is at least the cached minimum when the cached maximum
\* is not below it.
C11_ResizeToMinimumWhenSizeDiffers ==
    event.kind = "prepare" =>
        /\ (/\ ~event.frame.resizable
            /\ event.frame.window_size = << 200, 100 >>
            /\ LastResizeIs(event.frame.chain, MinNode))
             => /\ min_inner_size = Some(<< 300, 150 >>)
                /\ CachedMinAt(event.frame.chain,
                               LastResize(event.frame.chain),
                               event.frame.min_before) # Some(<< 300, 150 >>)
                     => \E i \in CallsAt("set_min_inner_size") :
                           calls[i].off = Some(<< 300, 150 >>)
                /\ event.frame.actual_size # event.frame.window_size
                     => \E j \in CallsAt("request_inner_size") :
                           /\ \A i \in CallsAt("set_min_inner_size") : i < j
                           /\ SizeLeq(<< 300, 150 >>, Unwrap(calls[j].off))
        /\ \A j \in CallsAt("request_inner_size") :
              (/\ min_inner_size # {}
               /\ max_inner_size # {} =>
                    SizeLeq(Unwrap(min_inner_size), Unwrap(max_inner_size)))
                => SizeLeq(Unwrap(min_inner_size), Unwrap(calls[j].off))

\* C11 witness: the first frame of such a window whose layout answers
\* 100x50: the min inner size is set to 300x150 and a resize to 300x150 is
\* requested after it
C11_Witness ==
    /\ event.kind = "prepare"
    /\ ~event.frame.resizable
    /\ event.frame.window_size = << 200, 100 >>
    /\ event.frame.actual_size = << 100, 50 >>
    /\ LastResizeIs(event.frame.chain, MinNode)
    /\ \E i \in CallsAt("set_min_inner_size") :
          /\ calls[i].off = Some(<< 300, 150 >>)
          /\ \E j \in CallsAt("request_inner_size") :
                i < j /\ calls[j].off = Some(<< 300, 150 >>)

\* C12: in every frame the host's min inner size is set exactly when the
\* minimum computed in the frame differs from the one of the prior frame;
\* its max inner size is set only when the computed maximum changed and
\* the window is resizable, never in a window that is not resizable; and
\* no push is made in a frame in which neither value changed.
C12_PushOnlyOnChange ==
    event.kind = "prepare" =>
        LET min_changed == min_inner_size # event.frame.min_before
            max_changed == max_inner_size # event.frame.max_before
        IN  /\ (CallsAt("set_min_inner_size") # {}) <=> min_changed
            /\ CallsAt("set_max_inner_size") # {}
                 => (max_changed /\ event.frame.resizable)
            /\ ~event.frame.resizable => CallsAt("set_max_inner_size") = {}
            /\ (~min_changed /\ ~max_changed)
                 => /\ CallsAt("set_min_inner_size") = {}
                    /\ CallsAt("set_max_inner_size") = {}

\* The largest and the smallest of a set of numbers
Largest(ns) == CHOOSE n \in ns : \A m \in ns : m <= n

Smallest(ns) == CHOOSE n \in ns : \A m \in ns : n <= m

\* The tightest limits of the Resize widgets of a chain that has one: the
\* largest minimum and the smallest maximum on each axis, none when the
\* axes are both 0
TightestMin(chain) ==
    LET width == Largest({ MinPx(chain[i].min_width) : i \in ResizeAt(chain) })
        height ==
            Largest({ MinPx(chain[i].min_height) : i \in ResizeAt(chain) })
    IN  IF width > 0 \/ height > 0 THEN Some(<< width, height >>) ELSE {}

TightestMax(chain) ==
    LET width ==
            Smallest({ MaxPx(chain[i].max_width) : i \in ResizeAt(chain) })
        height ==
            Smallest({ MaxPx(chain[i].max_height) : i \in ResizeAt(chain) })
    IN  IF width > 0 \/ height > 0 THEN Some(<< width, height >>) ELSE {}

\* C19: after the walk of a chain with Resize widgets the cached minimum
\* is the largest of their minimums and the cached maximum the smallest of
\* their maximums on each axis, whatever their order in the chain.
C19_TightestLimitsOfChain ==
    (event.kind = "prepare" /\ ResizeAt(event.frame.chain) # {}) =>
        /\ min_inner_size = TightestMin(event.frame.chain)
        /\ max_inner_size = TightestMax(event.frame.chain)

-----------------------------------------------------------------------------
(* Properties of the lookup of stored ids *)

\* The ids the handlers of key, IME and wheel events look up
StoredIds == { focused, hovered, default_widget, escape_widget } \ {NoWidget}

\* C13: a key, IME or wheel event that finds a stored id of the tree
\* (focused, hovered, default or escape) not resolving never panics and
\* calls no widget that was removed.
C13_MissingTargetIsSilent ==
    (/\ event.kind \in {"keyboard_input", "ime", "mouse_wheel"}
     /\ \E id \in StoredIds \cup {event.focus} : id \in removed)
      => \A i \in 1 .. Len(calls) :
            /\ calls[i].op # "panic"
            /\ calls[i].op \in {"keyboard_input", "ime", "mouse_wheel",
                                "activate", "advance_focus"}
                 => calls[i].w \notin removed

\* C14: the handler of a key event and of an IME event is invoked first on
\* the focused widget, the handler of a wheel event first on the hovered
\* widget, and each on the root when the slot is empty; the hovered widget
\* plays no part for key and IME events, nor the focused one for wheel
\* events.
C14_StartingTargetPerKind ==
    /\ event.kind \in {"keyboard_input", "ime"} =>
          /\ Invoked # << >>
          /\ Invoked[1] = IF event.focus # NoWidget THEN event.focus ELSE Root
    /\ event.kind = "mouse_wheel" =>
          /\ Invoked # << >>
          /\ Invoked[1] = IF hovered # NoWidget THEN hovered ELSE Root

\* C14 witness: a key event while one widget is focused and another one
\* hovered starts at the focused one
C14_Witness ==
    /\ event.kind = "keyboard_input"
    /\ event.focus \notin {NoWidget, Root}
    /\ hovered \notin {NoWidget, Root, event.focus}
    /\ Invoked[1] = event.focus

-----------------------------------------------------------------------------
(* Properties of the delivery of mouse_up and mouse_drag *)

\* C15 as stated: a mouse_up or a mouse_drag that the captured widget does
\* not consume is retried on its parent.
C15_UpAndDragBubble ==
    /\ (/\ event.kind = "mouse_input" /\ ~event.pressed /\ calls # << >>
        /\ calls[1].w \notin event.answers
        /\ parent[calls[1].w] # NoWidget)
         => \E i \in 1 .. Len(calls) :
               calls[i].op = "mouse_up" /\ calls[i].w = parent[calls[1].w]
    /\ (event.kind = "cursor_moved" /\ IsDragging(event.dev)) =>
          \A b \in DOMAIN devices[event.dev] :
            LET handler == devices[event.dev][b]
            IN  (handler \notin event.answers /\ parent[handler] # NoWidget)
                  => \E i \in 1 .. Len(calls) :
                        /\ calls[i].op = "mouse_drag" /\ calls[i].btn = b
                        /\ calls[i].w = parent[handler]

\* C15 amended: mouse_up and mouse_drag do not bubble.  A release calls
\* mouse_up on at most one widget and a cursor move during a drag calls
\* mouse_drag once per captured button of the device, on the widget that
\* captured it, whatever the widgets would answer; no ancestor is tried.
C15_UpAndDragGoToCaptureOnly ==
    /\ (event.kind = "mouse_input" /\ ~event.pressed) =>
          /\ Len(calls) <= 1
          /\ \A i \in 1 .. Len(calls) : calls[i].op = "mouse_up"
    /\ (event.kind = "cursor_moved" /\ IsDragging(event.dev)) =>
          /\ Len(calls) = Cardinality(DOMAIN devices[event.dev])
          /\ \A i \in 1 .. Len(calls) :
                /\ calls[i].op = "mouse_drag"
                /\ calls[i].btn \in DOMAIN devices[event.dev]
                /\ calls[i].w = devices[event.dev][calls[i].btn]
                /\ \A j \in 1 .. Len(calls) :
                      calls[j].btn = calls[i].btn => i = j

\* C15 witness: during a drag the widget that captured the button, which
\* has a parent, would not consume the move, and it alone is called
C15_Witness ==
    /\ event.kind = "cursor_moved" /\ IsDragging(event.dev)
    /\ Len(calls) = 1
    /\ calls[1].op = "mouse_drag"
    /\ parent[calls[1].w] # NoWidget
    /\ calls[1].w \notin event.answers

-----------------------------------------------------------------------------
(* Properties of the frame (prepare) *)

\* C16: over any sequence of frames the mounted hook of the root and the
\* establishment of the focus are invoked in the first frame only, once
\* each, after the root's layout was set; initial_frame is never set again,
\* so no later frame invokes them.
C16_MountedOnceInFirstFrame ==
    [][ /\ initial_frame' => initial_frame
        /\ event'.kind = "prepare" =>
              /\ ~initial_frame'
              /\ IF initial_frame
                 THEN \E l, m, f \in 1 .. Len(calls') :
                         /\ calls'[l].op = "set_layout" /\ calls'[l].w = Root
                         /\ calls'[m].op = "mounted" /\ calls'[m].w = Root
                         /\ calls'[f].op = "focus"
                         /\ l < m /\ m < f
                         /\ \A i \in 1 .. Len(calls') :
                               /\ calls'[i].op = "mounted" => i = m
                               /\ calls'[i].op = "focus" => i = f
                 ELSE \A i \in 1 .. Len(calls') :
                         calls'[i].op \notin {"mounted", "focus"} ]_vars

\* C16 witness: a later frame, which sets the root's layout and redraws
\* without mounting the root
C16_Witness ==
    /\ event.kind = "prepare" /\ ~event.frame.initial
    /\ CallsAt("set_layout") # {}
    /\ CallsAt("mounted") = {}
    /\ CallsAt("focus") = {}

\* C20: after every prepare the root's layout is the rectangle at the
\* origin of the size render_size, which is on each axis the smaller of
\* the size the layout answered and the window's, so never larger than the
\* window; the frame redraws once, clipped to that rectangle exactly when
\* render_size is smaller than the window on an axis.
C20_RenderSizeClampedToWindow ==
    event.kind = "prepare" =>
        LET window_size == event.frame.window_size
            actual_size == event.frame.actual_size
            rect == Unwrap(layout[Root])
            smaller == \/ rect.size[1] < window_size[1]
                       \/ rect.size[2] < window_size[2]
        IN  /\ layout[Root] # {}
            /\ rect.origin = << 0, 0 >>
            /\ \A axis \in 1 .. 2 :
                  /\ rect.size[axis] <= window_size[axis]
                  /\ rect.size[axis] <= actual_size[axis]
                  /\ rect.size[axis] \in
                       { window_size[axis], actual_size[axis] }
            /\ \E i \in CallsAt("set_layout") :
                  calls[i].w = Root /\ calls[i].off = Some(rect.size)
            /\ Cardinality(CallsAt("redraw")) = 1
            /\ \A i \in CallsAt("redraw") :
                  calls[i].off = IF smaller THEN Some(rect.size) ELSE {}

\* C20 witness: the layout answers a size that is wider and lower than
\* the window; render_size takes the window's width and the layout's
\* height, and the redraw is clipped
C20_Witness ==
    /\ event.kind = "prepare"
    /\ event.frame.actual_size[1] > event.frame.window_size[1]
    /\ event.frame.actual_size[2] < event.frame.window_size[2]
    /\ Unwrap(layout[Root]).size =
         << event.frame.window_size[1], event.frame.actual_size[2] >>
    /\ \E i \in CallsAt("redraw") : calls[i].off # {}

-----------------------------------------------------------------------------
(* Properties of the press (mouse_input, Pressed) *)

\* The entry of the pair (d, b) in a capture map, if any
EntryOf(map, d, b) ==
    IF d \in DOMAIN map /\ b \in DOMAIN map[d] THEN { map[d][b] } ELSE {}

\* The widgets of the path from w to the root that would consume an event
\* answered by the widgets of `answers`, and the nearest of them
ConsumersOn(w, answers) ==
    { i \in 1 .. Len(Ancestors(w)) : Ancestors(w)[i] \in answers }

NearestConsumer(w, answers) ==
    IF ConsumersOn(w, answers) = {} THEN NoWidget
    ELSE Ancestors(w)[CHOOSE i \in ConsumersOn(w, answers) :
                         \A j \in ConsumersOn(w, answers) : i <= j]

\* C17: a press while a widget H is hovered and the cursor's location is
\* known calls mouse_down first on H; the entry of the pressed (device,
\* button) pair becomes the widget of the path from H to the root that
\* consumed the press, and no other entry changes; when no widget of the
\* path consumes it the capture map is unchanged.
C17_CaptureIsTheConsumer ==
    [][ \A d \in DeviceIds, b \in MouseButtons :
          (IsPress(event', d, b) /\ mouse_widget # NoWidget
             /\ mouse_location # {}) =>
              LET consumer == NearestConsumer(mouse_widget, event'.answers)
                  downs == CallsOf(calls', {"mouse_down"})
              IN  /\ downs # << >> /\ downs[1].w = mouse_widget
                  /\ IF consumer = NoWidget
                     THEN devices' = devices
                     ELSE /\ EntryOf(devices', d, b) = { consumer }
                          /\ \A d2 \in DeviceIds, b2 \in MouseButtons :
                                << d2, b2 >> # << d, b >> =>
                                   EntryOf(devices', d2, b2)
                                     = EntryOf(devices, d2, b2) ]_vars

\* C17 witness: the hovered widget ignored the press, an ancestor of it
\* consumed it and holds the pair, while the other button is still held by
\* another widget
C17_Witness ==
    /\ IsPress(event, "mouse", "Left")
    /\ mouse_widget # NoWidget /\ mouse_location # {}
    /\ mouse_widget \notin event.answers
    /\ EntryOf(devices, "mouse", "Left") = { parent[mouse_widget] }
    /\ EntryOf(devices, "mouse", "Right") # {}
    /\ EntryOf(devices, "mouse", "Right") # EntryOf(devices, "mouse", "Left")

\* The state of the window but the focus is unchanged by a step
WindowKeptButFocus ==
    UNCHANGED << parent, layout, render_order, hovered, default_widget,
                 escape_widget, should_close, initial_frame,
                 keyboard_activated, mouse_location, mouse_widget, devices,
                 activations, min_inner_size, max_inner_size, removed >>

\* C18 as stated: a press while no widget is hovered calls no mouse_down,
\* creates no entry and only clears the focus, and a release of the same
\* (device, button) pair following it calls no mouse_up and changes no state.
C18_PressWithoutHover ==
    [][ \A d \in DeviceIds, b \in MouseButtons :
          /\ (IsPress(event', d, b) /\ mouse_widget = NoWidget) =>
                /\ calls' = << Call("clear_focus", Root, NoDevice, NoButton,
                                    {}) >>
                /\ focused' = NoWidget
                /\ WindowKeptButFocus
          /\ (IsPress(event, d, b) /\ mouse_widget = NoWidget
                /\ IsRelease(event', d, b)) =>
                /\ calls' = << >>
                /\ focused' = focused
                /\ WindowKeptButFocus ]_vars

\* C18 amended: the press is as stated, and the release following it calls
\* no mouse_up and changes no state when the pair held no entry from an
\* earlier press; an entry an earlier press left is delivered its mouse_up
\* and removed.
C18_PressWithoutHoverAndNoEarlierEntry ==
    [][ \A d \in DeviceIds, b \in MouseButtons :
          /\ (IsPress(event', d, b) /\ mouse_widget = NoWidget) =>
                /\ calls' = << Call("clear_focus", Root, NoDevice, NoButton,
                                    {}) >>
                /\ focused' = NoWidget
                /\ WindowKeptButFocus
          /\ (IsPress(event, d, b) /\ mouse_widget = NoWidget
                /\ IsRelease(event', d, b)) =>
                IF HasCapture(d, b)
                THEN /\ Len(calls') = 1 /\ calls'[1].op = "mouse_up"
                     /\ calls'[1].w = devices[d][b]
                     /\ ~HasCapture(d, b)'
                ELSE /\ calls' = << >>
                     /\ focused' = focused
                     /\ WindowKeptButFocus ]_vars

\* C18 witness: a press while no widget is hovered and no button is held
\* cleared the focus a widget had and called nothing else
C18_Witness ==
    /\ event.kind = "mouse_input" /\ event.pressed
    /\ mouse_widget = NoWidget
    /\ event.focus # NoWidget /\ focused = NoWidget
    /\ Len(calls) = 1
    /\ devices = EmptyMap

-----------------------------------------------------------------------------
(* Properties of the resize request (prepare) *)

\* A length raised to the minimum and then lowered to the maximum cached
\* for `axis`, where one is cached
Clamped(length, axis) ==
    LET raised == IF min_inner_size # {}
                     /\ Unwrap(min_inner_size)[axis] > length
                  THEN Unwrap(min_inner_size)[axis] ELSE length
    IN  IF max_inner_size # {} /\ Unwrap(max_inner_size)[axis] < raised
        THEN Unwrap(max_inner_size)[axis] ELSE raised

\* C21: prepare requests a resize of the host window exactly when the size
\* the layout answered differs from the window's and the window is not
\* resizable; it requests one size, the answered size raised to the cached
\* minimum and then lowered to the cached maximum on each axis; a resizable
\* window is never asked to resize.
C21_ResizeRequestedIffFixedAndDifferent ==
    event.kind = "prepare" =>
        LET frame == event.frame
            requests == CallsAt("request_inner_size")
        IN  /\ requests # {} <=>
                  (frame.actual_size # frame.window_size /\ ~frame.resizable)
            /\ Cardinality(requests) <= 1
            /\ frame.resizable => requests = {}
            /\ \A i \in requests :
                  calls[i].off = Some(<< Clamped(frame.actual_size[1], 1),
                                         Clamped(frame.actual_size[2], 2) >>)

\* C21 witness: a window that is not resizable is as wide as the layout
\* answered and higher; the resize requested is the answered size lowered
\* to the cached maximum on one axis only
C21_Witness ==
    /\ event.kind = "prepare" /\ ~event.frame.resizable
    /\ event.frame.actual_size[1] = event.frame.window_size[1]
    /\ \E i \in CallsAt("request_inner_size") :
          /\ Unwrap(calls[i].off)[1] < event.frame.actual_size[1]
          /\ Unwrap(calls[i].off)[2] = event.frame.actual_size[2]
    /\ max_inner_size # {}

-----------------------------------------------------------------------------
(* Properties of closing (request_close, render) *)

\* A key event of the close chord, primary modifier and "w", that no
\* widget handled
IsCloseChord(e, consumer) ==
    /\ e.kind = "keyboard_input" /\ e.key = "w" /\ e.mods.primary
    /\ consumer = NoWidget

\* C22: an unhandled press of primary + "w" asks close_requested once; when
\* it allows the close, should_close becomes true and a redraw is
\* requested; when it refuses and should_close was false, should_close
\* stays false and no redraw is requested; an unhandled release of the
\* chord asks nothing, requests no redraw and changes nothing of the window.
C22_CloseChord ==
    [][ IsCloseChord(event', result') =>
          LET asked == CallsOf(calls', {"close_requested"})
              redraws == CallsOf(calls', {"set_needs_redraw"})
          IN  IF event'.pressed
              THEN /\ Len(asked) = 1
                   /\ event'.allow => (should_close' /\ Len(redraws) = 1)
                   /\ (~event'.allow /\ ~should_close) =>
                         (~should_close' /\ redraws = << >>)
              ELSE /\ asked = << >> /\ redraws = << >>
                   /\ UNCHANGED << should_close, focused,
                                   keyboard_activated, activations >> ]_vars

\* C22 witness: the behaviour refused the close of a window that was not
\* closing; it was asked, and no redraw was requested
C22_Witness ==
    /\ IsCloseChord(event, result) /\ event.pressed /\ ~event.allow
    /\ ~should_close
    /\ CallsOf(calls, {"close_requested"}) # << >>
    /\ CallsOf(calls, {"set_needs_redraw"}) = << >>

-----------------------------------------------------------------------------
(* Properties of the shape of the capture map *)

\* C23: no device of the capture map has an empty button map: a device has
\* an entry exactly when one of its buttons is captured, so a cursor_moved
\* that took the drag branch called mouse_drag for a captured button of the
\* device, and one that called no mouse_drag found no entry of the device.
C23_NoEmptyDeviceEntry ==
    /\ \A d \in DOMAIN devices : DOMAIN devices[d] # {}
    /\ \A d \in DeviceIds :
          d \in DOMAIN devices <=> \E b \in MouseButtons : HasCapture(d, b)
    /\ event.kind = "cursor_moved" =>
          (CallsOf(calls, {"mouse_drag"}) # << >> <=> IsDragging(event.dev))

\* C23 witness: the release of the only captured button of the mouse
\* removed the entry of the mouse while a button of the touch device is
\* still captured
C23_Witness ==
    /\ IsRelease(event, "mouse", "Left")
    /\ CallsOf(calls, {"mouse_up"}) # << >>
    /\ "mouse" \notin DOMAIN devices
    /\ "touch" \in DOMAIN devices


\* C28: a pair of the capture map holds one widget.  A consumed press of a
\* pair that is already captured replaces the entry with the new consumer
\* and calls no mouse_up; mouse_up is called only by a release of a captured
\* pair, once, on the widget the entry holds then, so the widget that was
\* replaced gets no mouse_up for the pair.
C28_SecondPressReplacesCapture ==
    [][ /\ \A d \in DeviceIds, b \in MouseButtons :
              (IsPress(event', d, b) /\ HasCapture(d, b)
                 /\ result' # NoWidget) =>
                  /\ EntryOf(devices', d, b) = { result' }
                  /\ event'.replaced = EntryOf(devices, d, b)
                  /\ CallsOf(calls', {"mouse_up"}) = << >>
        /\ CallsOf(calls', {"mouse_up"}) # << >> =>
              /\ event'.kind = "mouse_input" /\ ~event'.pressed
              /\ HasCapture(event'.dev, event'.btn)
              /\ Len(CallsOf(calls', {"mouse_up"})) = 1
              /\ CallsOf(calls', {"mouse_up"})[1].w
                   = devices[event'.dev][event'.btn]
              /\ EntryOf(devices', event'.dev, event'.btn) = {} ]_vars

\* C28 witness: a press of a captured pair was consumed by another widget
\* than the one that held the pair; the entry is the new consumer and no
\* mouse_up was called
C28_Witness ==
    /\ IsPress(event, "mouse", "Left")
    /\ result # NoWidget
    /\ event.replaced # {} /\ event.replaced # { result }
    /\ EntryOf(devices, "mouse", "Left") = { result }
    /\ CallsOf(calls, {"mouse_up"}) = << >>

-----------------------------------------------------------------------------
(* Properties of the window's key handling (keyboard_input) *)

\* The calls the window's own key handling makes
WindowOps ==
    {"close_requested", "set_needs_redraw", "advance_focus", "activate",
     "deactivate"}

\* C24: the window's key handling (close chord, Tab, Enter and Escape) runs
\* only for a key event that no widget of the path from its target to the
\* root consumed; when a widget handles the event the window makes none of
\* its calls and leaves should_close, the focused widget and
\* keyboard_activated as they are, also for the key-up of Enter or Escape
\* while a widget is keyboard-activated.
C24_WindowKeysOnlyWhenUnhandled ==
    [][ event'.kind = "keyboard_input" =>
          /\ CallsOf(calls', WindowOps) # << >> => result' = NoWidget
          /\ result' # NoWidget =>
                /\ CallsOf(calls', WindowOps) = << >>
                /\ UNCHANGED << should_close, focused, keyboard_activated,
                                activations >> ]_vars

\* C24 witness: a widget handled the key-up of Enter while the default
\* widget was keyboard-activated, and it stays activated
C24_Witness ==
    /\ event.kind = "keyboard_input" /\ event.key = "Enter" /\ ~event.pressed
    /\ result # NoWidget
    /\ keyboard_activated # NoWidget
    /\ keyboard_activated = default_widget
    /\ activations[keyboard_activated] = 1

\* C26: in every state, for every widget the activate calls minus the
\* deactivate calls the window made on it are 1 when keyboard_activated is
\* that widget and 0 otherwise.
C26_ActivationsBalance ==
    \A w \in Widgets :
        activations[w] = IF keyboard_activated = w THEN 1 ELSE 0

\* C26 witness: a press of Enter without a release of Escape before it
\* deactivated the escape widget and activated the default widget
C26_Witness ==
    /\ event.kind = "keyboard_input" /\ event.key = "Enter" /\ event.pressed
    /\ result = NoWidget
    /\ keyboard_activated = default_widget
    /\ \E i \in 1 .. Len(calls) :
          /\ calls[i].op = "deactivate"
          /\ calls[i].w = escape_widget
          /\ calls[i].w # default_widget

\* The slot of the tree that a key activates
KeySlot(key) == IF key = "Enter" THEN default_widget ELSE escape_widget

\* C27: an unhandled key-up of Enter or of Escape deactivates the widget
\* that is keyboard-activated, whichever key activated it, and leaves none
\* activated; an unhandled press of Enter or Escape whose slot is empty or
\* holds an id that does not resolve calls neither activate nor deactivate
\* and leaves keyboard_activated as it is.
C27_KeyUpDeactivatesAny ==
    [][ (/\ event'.kind = "keyboard_input"
         /\ event'.key \in {"Enter", "Escape"}
         /\ result' = NoWidget) =>
          IF ~event'.pressed
          THEN /\ CallsOf(calls', {"activate", "deactivate"}) =
                    IF keyboard_activated = NoWidget THEN << >>
                    ELSE << Call("deactivate", keyboard_activated, NoDevice,
                                 NoButton, {}) >>
               /\ keyboard_activated' = NoWidget
          ELSE (KeySlot(event'.key) = NoWidget
                  \/ KeySlot(event'.key) \in removed) =>
                 /\ CallsOf(calls', {"activate", "deactivate"}) = << >>
                 /\ keyboard_activated' = keyboard_activated ]_vars

\* C27 witness: the key-up of Escape deactivated the default widget, which
\* is not the escape widget
C27_Witness ==
    /\ event.kind = "keyboard_input" /\ event.key = "Escape" /\ ~event.pressed
    /\ result = NoWidget
    /\ keyboard_activated = NoWidget
    /\ \E i \in 1 .. Len(calls) :
          /\ calls[i].op = "deactivate"
          /\ calls[i].w = default_widget
          /\ calls[i].w # escape_widget

====
